---------------------------- MODULE Spec2Model ----------------------------
(***************************************************************************)
(* State-machine model of the DHT22 driver of src/src/ErriezDHT22.cpp.     *)
(*                                                                         *)
(* The object's members are the variables that carry the source's names.   *)
(* The millisecond clock, the attached sensor and the bookkeeping of what  *)
(* the last call did (its return value, its hardware accesses) are the     *)
(* environment and observation variables, listed after them.               *)
(*                                                                         *)
(* The member declarations live in ErriezDHT22.h.  Their widths are taken  *)
(* from the .cpp: begin(uint8_t, uint8_t), the uint8_t accessor            *)
(* getNumRetriesLastConversion(), the int16_t results of the read calls    *)
(* and the (uint32_t) cast of the timestamp.                               *)
(***************************************************************************)
EXTENDS Integers, Sequences, FiniteSets, TLC

VARIABLES
    pc,                         \* "constructed" | "idle" | "acquiring" | "ub"
    _lastMeasurementTimestamp,  \* uint32_t, as [hi, lo] 16-bit halves
    _maxReadRetries,            \* uint8_t
    _numReadRetries,            \* uint8_t
    _numSamples,                \* uint8_t
    _statusLastMeasurement,     \* bool
    _data,                      \* uint8_t[5], indexed 0..4
    _temperatureSamples,        \* [ptr, mem]: int16_t * and what it points to
    _temperatureSampleIndex,    \* uint8_t
    _numTemperatureSamples,     \* uint8_t
    _humiditySamples,           \* [ptr, mem]
    _humiditySampleIndex,       \* uint8_t
    _numHumiditySamples,        \* uint8_t
    now,                        \* millis(), uint32_t as [hi, lo]
    sensor,                     \* which sensor is attached (see Answers)
    fuel,                       \* calls and clock steps left in this run
    lastOp,                     \* the operation that acted last
    ret,                        \* what it returned
    hw,                         \* hardware accesses of the last available()
    attempts,                   \* attempts run by the last available()
    elapsed,                    \* real ms since the last acquisition started
    obs,                        \* what the read calls have published so far
    mcu                         \* interrupt flag, cycles[] and the position
                                \* inside the attempt or measurement in progress

vars == <<pc, _lastMeasurementTimestamp, _maxReadRetries, _numReadRetries,
          _numSamples, _statusLastMeasurement, _data,
          _temperatureSamples, _temperatureSampleIndex, _numTemperatureSamples,
          _humiditySamples, _humiditySampleIndex, _numHumiditySamples,
          now, sensor, fuel, lastOp, ret, hw, attempts, elapsed, obs, mcu>>

members == <<_lastMeasurementTimestamp, _maxReadRetries, _numReadRetries,
             _numSamples, _statusLastMeasurement, _data,
             _temperatureSamples, _temperatureSampleIndex, _numTemperatureSamples,
             _humiditySamples, _humiditySampleIndex, _numHumiditySamples>>

readState == <<_lastMeasurementTimestamp, _statusLastMeasurement,
               _numReadRetries, _data>>

averager == <<_temperatureSamples, _temperatureSampleIndex, _numTemperatureSamples,
              _humiditySamples, _humiditySampleIndex, _numHumiditySamples>>

-----------------------------------------------------------------------------
(* Fixed-width integers *)

UINT8_MOD == 256
HALF == 65536

\* (uint8_t)x
U8(x) == x % UINT8_MOD

\* (int16_t)x, for x in -2^31 .. 2^31-1
I16(x) == LET m == x % HALF IN IF m >= 32768 THEN m - HALF ELSE m

\* C++ integer division, truncating toward zero (d > 0)
TruncDiv(n, d) == IF n >= 0 THEN n \div d ELSE -((-n) \div d)

\* uint32_t values are kept as two 16-bit halves: 2^32 is no TLC integer.
U32(h, l) == [hi |-> h, lo |-> l]

U32Add(a, n) ==
    LET s == a.lo + n
    IN  U32((a.hi + s \div HALF) % HALF, s % HALF)

\* a - b modulo 2^32
U32Sub(a, b) ==
    LET l == a.lo - b.lo
        borrow == IF l < 0 THEN 1 ELSE 0
    IN  U32((a.hi - b.hi - borrow) % HALF, l % HALF)

\* a < n for 0 <= n < 2^16
U32Less(a, n) == a.hi = 0 /\ a.lo < n

-----------------------------------------------------------------------------
(* Program constants *)

DHT22_MIN_READ_INTERVAL == 2000
DHT22_NUM_DATA_BITS == 40
MIN_INTERVAL_MS == 2000
START_HIGH_MS == 10
START_LOW_MS == 20
INVALID == -1

-----------------------------------------------------------------------------
(* The private functions, as functions of what the pulse measurements     *)
(* return.  A response of the line is [startLow, startHigh, cycles]: the  *)
(* two handshake pulse widths and the 80 data pulse widths, 0 a timeout.  *)

\* generateStart(): both handshake pulses must be measured (non-zero).
GenerateStart(r) ==
    IF r.startLow = 0 THEN FALSE
    ELSE IF r.startHigh = 0 THEN FALSE
    ELSE TRUE

\* Pulse measurements generateStart() makes: HIGH only after a good LOW.
StartPulses(r) == IF r.startLow = 0 THEN 1 ELSE 2

\* A high phase as long as the low phase read as a 1 (a variant, not the
\* code).
BitValueInclusive(lowCycles, highCycles) == IF highCycles >= lowCycles THEN 1 ELSE 0

\* if (highCycles > lowCycles) _data[byteIndex] |= 1
BitValue(lowCycles, highCycles) == IF highCycles > lowCycles THEN 1 ELSE 0

\* The conversion loop of readBytes(), from bit i on, d the buffer so far.
RECURSIVE ConvertBits(_, _, _)
ConvertBits(cycles, i, d) ==
    IF i = DHT22_NUM_DATA_BITS THEN [ok |-> TRUE, data |-> d]
    ELSE LET lowCycles == cycles[2 * i]
             highCycles == cycles[(2 * i) + 1]
             byteIndex == i \div 8
             shifted == U8(d[byteIndex] * 2)
             bit == BitValue(lowCycles, highCycles)
         IN  IF (lowCycles = 0) \/ (highCycles = 0)
             THEN [ok |-> FALSE, data |-> d]
             ELSE ConvertBits(cycles, i + 1,
                              [d EXCEPT ![byteIndex] = shifted + bit])

\* readBytes(): memset(_data, 0), then the conversion.
ReadBytes(cycles) == ConvertBits(cycles, 0, [i \in 0..4 |-> 0])

\* The parity test left out (a variant, not the code).
ChecksumSkipped(d) == TRUE

\* The parity test of readSensorData().
ChecksumOk(d) == ((d[0] + d[1] + d[2] + d[3]) % 256) = d[4]

\* Some pulse measurement of a pass on response r returns 0: a handshake
\* pulse, or a data pulse once the handshake was measured.
TimesOut(r) ==
    \/ r.startLow = 0
    \/ r.startHigh = 0
    \/ \E j \in 0..((2 * DHT22_NUM_DATA_BITS) - 1) : r.cycles[j] = 0

\* One pass of the body of the retry loop on response r, d the buffer
\* before it: the resulting flag and buffer and the accesses made.
Verdict(r, started, rb) ==
    [status |-> started /\ rb.ok /\ ChecksumOk(rb.data),
     data |-> rb.data,
     started |-> started,
     decoded |-> started /\ rb.ok,
     timeout |-> TimesOut(r),
     pulses |-> StartPulses(r) + (IF started THEN 2 * DHT22_NUM_DATA_BITS ELSE 0)]

AttemptBody(r, d) ==
    Verdict(r, GenerateStart(r),
            IF GenerateStart(r) THEN ReadBytes(r.cycles) ELSE [ok |-> FALSE, data |-> d])

\* The interval test with its bound off by one (a variant, not the code).
IntervalTooShortOffByOne(t, last) == U32Less(U32Sub(t, last), MIN_INTERVAL_MS - 1)

\* The interval test of available().
IntervalTooShort(t, last) == U32Less(U32Sub(t, last), MIN_INTERVAL_MS)

\* The too-soon return answering with the last outcome (a variant, not
\* the code).
TooSoonPrior == _statusLastMeasurement

\* What available() returns when the interval is too short.
TooSoon == FALSE

\* The loop condition of readSensorData().
RetryAllowed(n, max) == n <= max

\* min(_numReadRetries, _maxReadRetries)
Min(a, b) == IF a < b THEN a ELSE b

-----------------------------------------------------------------------------
(* Decoding and averaging *)

\* The two temperature bytes read as a 16-bit two's complement number (a
\* variant, not the code).
DecodeTwosComplement(d) == I16((d[2] * 256) + d[3])

\* ((_data[2] & 0x7F) << 8) | _data[3], negated when bit 7 of _data[2] is set
DecodeTemperature(d) ==
    LET magnitude == I16(((d[2] % 128) * 256) + d[3])
    IN  IF d[2] >= 128 THEN I16(magnitude * (-1)) ELSE magnitude

\* (int16_t)((_data[0] << 8) | _data[1])
DecodeHumidity(d) == I16((d[0] * 256) + d[1])

\* The averaging branch is taken for a non-NULL buffer and a value other
\* than ~0.
Averaged(buf, v) == (buf.ptr # "null") /\ (v # INVALID)

\* The slot written: index % _numSamples (the index is incremented after).
Slot(index, n) == index % n

\* The post-increment of the uint8_t sample index.
NextIndex(index) == U8(index + 1)

\* The count of valid samples after a store.
NextCount(count, n) == IF count < n THEN count + 1 ELSE count

\* The int16_t accumulation of samples[0 .. count-1], from i on.
RECURSIVE SumSamples(_, _, _, _)
SumSamples(mem, count, i, acc) ==
    IF i >= count THEN acc
    ELSE SumSamples(mem, count, i + 1, I16(acc + mem[i]))

\* value /= count, on int16_t
Average(mem, count) == I16(TruncDiv(SumSamples(mem, count, 0, 0), count))


\* One store-and-average pass (readTemperature() lines 147-160,
\* readHumidity() lines 188-201) on a buffer of n samples.
Fold(buf, index, count, n, v) ==
    LET mem == [buf.mem EXCEPT ![Slot(index, n)] = v]
        cnt == NextCount(count, n)
    IN  [buf |-> [buf EXCEPT !.mem = mem],
         index |-> NextIndex(index),
         count |-> cnt,
         value |-> Average(mem, cnt)]

-----------------------------------------------------------------------------
(* The sensor: what the line answers to one start condition *)

\* Bit i (0..39, in arrival order) of payload p
Bit(p, i) == (p[i \div 8] \div (2 ^ (7 - (i % 8)))) % 2

\* The 80 pulse widths of payload p: a 50-tick low phase, then a high
\* phase of 70 ticks for a 1 and 26 for a 0; measurement zeroAt times out.
Frame(p, zeroAt) ==
    [j \in 0..79 |->
        IF j = zeroAt THEN 0
        ELSE IF j % 2 = 0 THEN 50
        ELSE IF Bit(p, j \div 2) = 1 THEN 70 ELSE 26]

Silence == [j \in 0..79 |-> 0]

\* The 80 pulse widths of payload p with no timeout, for the widths
\* w = [low, one, zero] of the low phase and of the two high phases.
FrameW(p, w) ==
    [j \in 0..79 |->
        IF j % 2 = 0 THEN w.low
        ELSE IF Bit(p, j \div 2) = 1 THEN w.one ELSE w.zero]

\* Five bytes as a payload, whatever the fifth is
Bytes(b0, b1, b2, b3, b4) ==
    [i \in 0..4 |->
        CASE i = 0 -> b0 [] i = 1 -> b1 [] i = 2 -> b2 [] i = 3 -> b3
          [] OTHER -> b4]

\* The payload of raw humidity h (0..65535) and temperature t (tenths,
\* sign and magnitude), with its checksum
Reading(h, t) ==
    LET m == IF t < 0 THEN -t ELSE t
        b0 == h \div 256
        b1 == h % 256
        b2 == (m \div 256) + (IF t < 0 THEN 128 ELSE 0)
        b3 == m % 256
    IN  [i \in 0..4 |->
            CASE i = 0 -> b0 [] i = 1 -> b1 [] i = 2 -> b2 [] i = 3 -> b3
              [] OTHER -> (b0 + b1 + b2 + b3) % 256]

\* p with a checksum byte that does not match
Corrupt(p) == [p EXCEPT ![4] = (p[4] + 1) % 256]

Good(p) == [startLow |-> 80, startHigh |-> 80, cycles |-> Frame(p, -1)]
BitTimeout(p, j) == [startLow |-> 80, startHigh |-> 80, cycles |-> Frame(p, j)]
GoodW(p, w) == [startLow |-> 80, startHigh |-> 80, cycles |-> FrameW(p, w)]
NoAck == [startLow |-> 0, startHigh |-> 0, cycles |-> Silence]
NoRelease == [startLow |-> 80, startHigh |-> 0, cycles |-> Silence]


-----------------------------------------------------------------------------
(* Construction *)

NoAccess == [writes |-> 0, modes |-> 0, pulses |-> 0]

NoBuffer(p) == [ptr |-> p, mem |-> <<>>]

\* What the read calls have published: provenance of _data, whether the
\* last successful acquisition was already read, and the raw values folded
\* by reads that came one per successful acquisition.
NoObs ==
    [acquired |-> FALSE, lastAcq |-> "none", dataFrom |-> "uninit",
     startFails |-> FALSE, timedOut |-> FALSE, published |-> FALSE,
     freshT |-> FALSE, freshH |-> FALSE, prevT |-> <<>>, prevH |-> <<>>,
     discT |-> TRUE, discH |-> TRUE, winT |-> <<>>, winH |-> <<>>]

\* No attempt or measurement in progress: interrupts enabled.  cycles[] is
\* written in full by readBytes() before it is read, so it is kept as the
\* sequence of the widths stored by the capture in progress or last made.
Reset ==
    [ints |-> TRUE, phase |-> "none", i |-> 0, cycles |-> <<>>,
     src |-> <<>>, calls |-> <<>>, probe |-> <<>>, width |-> -1]

\* The members the constructor leaves unset and begin() may not set: zero
\* for an object of static storage, indeterminate for any other.
StaticObject ==
    [status |-> FALSE, data |-> [i \in 0..4 |-> 0], tptr |-> "null", hptr |-> "null"]

AutomaticObjects ==
    [status : BOOLEAN, data : {[i \in 0..4 |-> 165]},
     tptr : {"null", "wild"}, hptr : {"wild"}]

\* DHT22::DHT22(pin): the counters and indexes are zeroed; the members that
\* begin() sets hold no value yet (written 0 here, never read before begin()).
Constructed(o, t, answers, budget) ==
    /\ pc = "constructed"
    /\ _lastMeasurementTimestamp = U32(0, 0)
    /\ _maxReadRetries = 0
    /\ _numSamples = 0
    /\ _numReadRetries = 0
    /\ _temperatureSampleIndex = 0
    /\ _numTemperatureSamples = 0
    /\ _humiditySampleIndex = 0
    /\ _numHumiditySamples = 0
    /\ _statusLastMeasurement = o.status
    /\ _data = o.data
    /\ _temperatureSamples = NoBuffer(o.tptr)
    /\ _humiditySamples = NoBuffer(o.hptr)
    /\ now = t
    /\ sensor = answers
    /\ fuel = budget
    /\ lastOp = "none"
    /\ ret = FALSE
    /\ hw = NoAccess
    /\ attempts = 0
    /\ elapsed = 0
    /\ obs = NoObs
    /\ mcu = Reset

\* (uint32_t)-DHT22_MIN_READ_INTERVAL
InitialTimestamp == U32Sub(U32(0, 0), U32(0, DHT22_MIN_READ_INTERVAL))

\* malloc(numSamples * sizeof(int16_t)): numSamples slots, none valid yet
\* (slots at or beyond the valid count are never read).
Allocated(numSamples) == [ptr |-> "heap", mem |-> [i \in 0..(numSamples - 1) |-> 0]]

\* The body of begin(maxReadRetries, numSamples)
Configure(maxReadRetries, numSamples) ==
    /\ _maxReadRetries' = maxReadRetries
    /\ _numSamples' = numSamples
    /\ IF numSamples # 0
       THEN /\ _temperatureSamples' = Allocated(numSamples)
            /\ _humiditySamples' = Allocated(numSamples)
       ELSE UNCHANGED <<_temperatureSamples, _humiditySamples>>
    /\ _lastMeasurementTimestamp' = InitialTimestamp
    /\ pc' = "idle"
    /\ lastOp' = "begin"
    /\ hw' = [NoAccess EXCEPT !.modes = 1]
    /\ UNCHANGED <<_numReadRetries, _statusLastMeasurement, _data,
                   _temperatureSampleIndex, _numTemperatureSamples,
                   _humiditySampleIndex, _numHumiditySamples,
                   now, sensor, ret, attempts, elapsed, obs, mcu>>

\* begin(maxReadRetries, numSamples), the first call after construction
Begin(maxReadRetries, numSamples) ==
    /\ pc = "constructed"
    /\ Configure(maxReadRetries, numSamples)
    /\ UNCHANGED fuel

\* begin(maxReadRetries, numSamples) called again on a configured object:
\* the same statements; the buffers of the earlier call are neither freed
\* nor reset, nor are the cursors and counts.
BeginAgain(maxReadRetries, numSamples) ==
    /\ pc = "idle"
    /\ fuel > 0
    /\ fuel' = fuel - 1
    /\ Configure(maxReadRetries, numSamples)

\* Time passes between two calls.
Tick(d) ==
    /\ pc = "idle"
    /\ fuel > 0
    /\ fuel' = fuel - 1
    /\ now' = U32Add(now, d)
    /\ elapsed' = elapsed + d
    /\ lastOp' = "tick"
    /\ UNCHANGED <<pc, members, sensor, ret, hw, attempts, obs, mcu>>

-----------------------------------------------------------------------------
(* available() and the retry loop of readSensorData() *)

\* available(): either the early return, or readSensorData() up to the
\* first evaluation of the loop condition (0 <= _maxReadRetries holds).
Available ==
    /\ pc = "idle"
    /\ fuel > 0
    /\ fuel' = fuel - 1
    /\ hw' = NoAccess
    /\ attempts' = 0
    /\ IF IntervalTooShort(now, _lastMeasurementTimestamp)
       THEN /\ ret' = TooSoon
            /\ lastOp' = "available"
            /\ UNCHANGED <<pc, members, elapsed, obs>>
       ELSE /\ _lastMeasurementTimestamp' = now
            /\ _numReadRetries' = 0
            /\ pc' = "acquiring"
            /\ lastOp' = "acquire"
            /\ elapsed' = 0
            /\ obs' = [obs EXCEPT !.acquired = TRUE, !.startFails = TRUE,
                                  !.lastAcq = "running"]
            /\ UNCHANGED <<ret, _maxReadRetries, _numSamples, _statusLastMeasurement,
                           _data, averager>>
    /\ UNCHANGED <<now, sensor, mcu>>

\* Where _data comes from after one pass of the loop body
Provenance(res, before) ==
    IF ~res.started THEN before
    ELSE IF ~res.decoded THEN "partial"
    ELSE "decoded"

\* The end of one pass of the retry loop whose body gave res: the break or
\* the loop's increment and condition, and, when the loop ends, the rest of
\* readSensorData() and the return of available().
Conclude(res, cap) ==
    /\ pc = "acquiring"
    /\ attempts < cap
    /\ LET n1 == U8(_numReadRetries + 1)
           again == ~res.status /\ RetryAllowed(n1, _maxReadRetries)
           n == IF res.status THEN _numReadRetries ELSE n1
           ok == res.status
       IN  /\ _statusLastMeasurement' = res.status
           /\ _data' = res.data
           /\ attempts' = attempts + 1
           /\ hw' = [writes |-> hw.writes + 2, modes |-> hw.modes + 2,
                     pulses |-> hw.pulses + res.pulses]
           /\ now' = U32Add(now, START_HIGH_MS + START_LOW_MS)
           /\ elapsed' = elapsed + START_HIGH_MS + START_LOW_MS
           /\ obs' = [obs EXCEPT
                        !.dataFrom = Provenance(res, @),
                        !.startFails = @ /\ ~res.started,
                        !.lastAcq = IF again THEN @
                                    ELSE IF ok THEN "ok" ELSE "failed",
                        !.timedOut = res.timeout,
                        !.freshT = IF ok THEN TRUE ELSE @,
                        !.freshH = IF ok THEN TRUE ELSE @,
                        !.prevT = IF ok THEN <<>> ELSE @,
                        !.prevH = IF ok THEN <<>> ELSE @,
                        !.discT = IF ok /\ obs.freshT THEN FALSE ELSE @,
                        !.discH = IF ok /\ obs.freshH THEN FALSE ELSE @]
           /\ IF again
              THEN /\ _numReadRetries' = n
                   /\ lastOp' = "attempt"
                   /\ UNCHANGED <<pc, ret>>
              ELSE /\ _numReadRetries' = Min(n, _maxReadRetries)
                   /\ pc' = "idle"
                   /\ ret' = res.status
                   /\ lastOp' = "available"
    /\ UNCHANGED <<_lastMeasurementTimestamp, _maxReadRetries, _numSamples,
                   averager, sensor, fuel>>

\* One pass of the retry loop on the line's response r, taken as one step.
Attempt(r, cap) ==
    /\ pc = "acquiring"
    /\ attempts < cap
    /\ mcu.phase = "none"
    /\ \E res \in {AttemptBody(r, _data)} : Conclude(res, cap)
    /\ UNCHANGED mcu

-----------------------------------------------------------------------------
(* One pass of the retry loop, statement by statement.  mcu.phase is the  *)
(* position in the pass: "none" outside a pass, "started" after           *)
(* generateStart(), "capture" inside the capture loop of readBytes(),     *)
(* "captured" after it, "read" after the read part of the pass.           *)

\* readBytes() called whatever generateStart() returned (a variant, not the
\* code).
ReadAlways(status) == TRUE

\* if (_statusLastMeasurement) before readBytes()
ReadIfStarted(status) == status

\* if (_statusLastMeasurement) before the parity test
ParityIfRead(status) == status

\* The capture loop left at the first measurement that timed out (a
\* variant, not the code).
CaptureStopsAtTimeout(i, cycles) ==
    \/ i = 2 * DHT22_NUM_DATA_BITS
    \/ (i > 0) /\ (cycles[i] = 0)

\* The condition that ends the capture loop: i < (DHT22_NUM_DATA_BITS * 2)
\* is false, whatever was measured.
CaptureDone(i, cycles) == i = 2 * DHT22_NUM_DATA_BITS

\* The interrupt flag left cleared after the capture (a variant, not the
\* code).
InterruptsLeftOff(ints) == ints

\* interrupts() after the capture loop
InterruptsOn(ints) == TRUE

\* cycles[] as the conversion loop reads it (every slot was written by the
\* capture; a slot it had not written would hold an older width, here 0).
Stored(cycles) ==
    [j \in 0..((2 * DHT22_NUM_DATA_BITS) - 1) |->
        IF j < Len(cycles) THEN cycles[j + 1] ELSE 0]

stepFrame == <<pc, _lastMeasurementTimestamp, _maxReadRetries, _numReadRetries,
               _numSamples, averager, now, sensor, fuel, ret, hw, attempts,
               elapsed, obs>>

\* _statusLastMeasurement = true; generateStart() on the line's response r
StartCondition(r, cap) ==
    /\ pc = "acquiring"
    /\ attempts < cap
    /\ mcu.phase = "none"
    /\ mcu.ints
    /\ _statusLastMeasurement' = GenerateStart(r)
    /\ mcu' = [mcu EXCEPT !.phase = "started", !.src = r,
                          !.calls = <<"generateStart">>]
    /\ lastOp' = "generateStart"
    /\ UNCHANGED <<stepFrame, _data>>

\* readBytes() entered: noInterrupts()
EnterReadBytes ==
    /\ mcu.phase = "started"
    /\ ReadIfStarted(_statusLastMeasurement)
    /\ mcu' = [mcu EXCEPT !.phase = "capture", !.ints = FALSE, !.i = 0,
                          !.cycles = <<>>, !.calls = Append(@, "readBytes")]
    /\ lastOp' = "noInterrupts"
    /\ UNCHANGED <<stepFrame, _statusLastMeasurement, _data>>

\* readBytes() not called
SkipReadBytes ==
    /\ mcu.phase = "started"
    /\ ~ReadIfStarted(_statusLastMeasurement)
    /\ mcu' = [mcu EXCEPT !.phase = "read"]
    /\ lastOp' = "skip"
    /\ UNCHANGED <<stepFrame, _statusLastMeasurement, _data>>

\* cycles[i] = measurePulseWidth(...), one measurement of the capture loop
Measure ==
    /\ mcu.phase = "capture"
    /\ ~CaptureDone(mcu.i, mcu.cycles)
    /\ mcu' = [mcu EXCEPT !.cycles = Append(@, mcu.src.cycles[mcu.i]),
                          !.i = @ + 1]
    /\ lastOp' = "measurePulseWidth"
    /\ UNCHANGED <<stepFrame, _statusLastMeasurement, _data>>

\* The capture loop ends: interrupts()
LeaveCapture ==
    /\ mcu.phase = "capture"
    /\ CaptureDone(mcu.i, mcu.cycles)
    /\ mcu' = [mcu EXCEPT !.phase = "captured", !.ints = InterruptsOn(@)]
    /\ lastOp' = "interrupts"
    /\ UNCHANGED <<stepFrame, _statusLastMeasurement, _data>>

\* memset(_data, 0), the conversion loop and the return of readBytes()
Convert ==
    /\ mcu.phase = "captured"
    /\ \E rb \in {ReadBytes(Stored(mcu.cycles))} :
          /\ _data' = rb.data
          /\ _statusLastMeasurement' = rb.ok
    /\ mcu' = [mcu EXCEPT !.phase = "read"]
    /\ lastOp' = "readBytes"
    /\ UNCHANGED stepFrame

\* The parity test and the end of the pass
Parity(cap) ==
    /\ mcu.phase = "read"
    /\ LET tested == ParityIfRead(_statusLastMeasurement)
           status == IF tested THEN ChecksumOk(_data) ELSE _statusLastMeasurement
           rb == [ok |-> _statusLastMeasurement, data |-> _data]
           res == [Verdict(mcu.src, GenerateStart(mcu.src), rb) EXCEPT !.status = status]
       IN  /\ Conclude(res, cap)
           /\ mcu' = [mcu EXCEPT !.phase = "none",
                         !.calls = IF tested THEN Append(@, "parity") ELSE @]


-----------------------------------------------------------------------------
(* measurePulseWidth() on a line given by what its successive reads of    *)
(* the pin return.                                                        *)

\* The loop of measurePulseWidth(level) from read k on, count the counter:
\* while (digitalRead(_pin) == level) { if (count++ >= _maxCycles) return 0; }
\* return count;
RECURSIVE PulseLoop(_, _, _, _, _)
PulseLoop(levels, k, level, count, maxCycles) ==
    IF levels[k] # level THEN count
    ELSE IF count >= maxCycles THEN 0
    ELSE PulseLoop(levels, k + 1, level, count + 1, maxCycles)

\* measurePulseWidth(level): uint32_t count = 0, then the loop
MeasurePulseWidth(levels, level, maxCycles) == PulseLoop(levels, 1, level, 0, maxCycles)

\* The line and the threshold _maxCycles of one measurement
Line(levels, maxCycles) ==
    /\ mcu.phase = "none"
    /\ mcu.probe = <<>>
    /\ mcu' = [mcu EXCEPT !.probe = <<levels, maxCycles>>]
    /\ lastOp' = "line"
    /\ UNCHANGED <<stepFrame, _statusLastMeasurement, _data>>

\* One call of measurePulseWidth(level) on that line
MeasureCall(level) ==
    /\ mcu.phase = "none"
    /\ mcu.probe # <<>>
    /\ mcu.width = -1
    /\ mcu' = [mcu EXCEPT !.width = MeasurePulseWidth(mcu.probe[1], level, mcu.probe[2]),
                          !.probe = Append(@, level)]
    /\ lastOp' = "measurePulseWidth"
    /\ UNCHANGED <<stepFrame, _statusLastMeasurement, _data>>

-----------------------------------------------------------------------------
(* readTemperature() and readHumidity() *)

\* The status test left out (a variant, not the code).
StatusUnchecked(status) == FALSE

\* The status test both read calls start with.
LastMeasurementFailed(status) == status # TRUE

\* The part of a read call after the decode: the averaging branch or the
\* raw value.  ub: index % _numSamples with _numSamples = 0 on a non-NULL
\* pointer that begin(.., 0) left unset.
Publish(v, buf, index, count, n) ==
    IF Averaged(buf, v)
    THEN IF n = 0
         THEN [ub |-> TRUE, buf |-> buf, index |-> index, count |-> count, value |-> v]
         ELSE [ub |-> FALSE] @@ Fold(buf, index, count, n, v)
    ELSE [ub |-> FALSE, buf |-> buf, index |-> index, count |-> count, value |-> v]

\* The last n entries of w with v appended
Window(w, v, n) ==
    LET a == Append(w, v)
    IN  IF Len(a) <= n THEN a ELSE SubSeq(a, Len(a) - n + 1, Len(a))

\* The record of one read of raw value v: whether it was the one read of a
\* successful acquisition, and the raw values so read.
Noted(fresh, disc, win, v, n) ==
    IF fresh /\ disc /\ n > 0
    THEN [disc |-> TRUE, win |-> Window(win, v, n)]
    ELSE [disc |-> disc /\ n = 0, win |-> <<>>]

ReadTemperature ==
    /\ pc = "idle"
    /\ fuel > 0
    /\ fuel' = fuel - 1
    /\ lastOp' = "readTemperature"
    /\ IF LastMeasurementFailed(_statusLastMeasurement)
       THEN /\ ret' = INVALID
            /\ obs' = [obs EXCEPT !.published = FALSE]
            /\ UNCHANGED <<pc, averager>>
       ELSE LET temperature == DecodeTemperature(_data)
                p == Publish(temperature, _temperatureSamples,
                             _temperatureSampleIndex, _numTemperatureSamples,
                             _numSamples)
                note == Noted(obs.freshT, obs.discT, obs.winT, temperature, _numSamples)
            IN  /\ pc' = IF p.ub THEN "ub" ELSE pc
                /\ ret' = p.value
                /\ _temperatureSamples' = p.buf
                /\ _temperatureSampleIndex' = p.index
                /\ _numTemperatureSamples' = p.count
                /\ obs' = [obs EXCEPT !.published = TRUE, !.freshT = FALSE,
                                      !.prevT = <<p.value>>,
                                      !.discT = note.disc, !.winT = note.win]
                /\ UNCHANGED <<_humiditySamples, _humiditySampleIndex,
                               _numHumiditySamples>>
    /\ UNCHANGED <<_lastMeasurementTimestamp, _maxReadRetries, _numReadRetries,
                   _numSamples, _statusLastMeasurement, _data,
                   now, sensor, hw, attempts, elapsed, mcu>>

ReadHumidity ==
    /\ pc = "idle"
    /\ fuel > 0
    /\ fuel' = fuel - 1
    /\ lastOp' = "readHumidity"
    /\ IF LastMeasurementFailed(_statusLastMeasurement)
       THEN /\ ret' = INVALID
            /\ obs' = [obs EXCEPT !.published = FALSE]
            /\ UNCHANGED <<pc, averager>>
       ELSE LET humidity == DecodeHumidity(_data)
                p == Publish(humidity, _humiditySamples,
                             _humiditySampleIndex, _numHumiditySamples,
                             _numSamples)
                note == Noted(obs.freshH, obs.discH, obs.winH, humidity, _numSamples)
            IN  /\ pc' = IF p.ub THEN "ub" ELSE pc
                /\ ret' = p.value
                /\ _humiditySamples' = p.buf
                /\ _humiditySampleIndex' = p.index
                /\ _numHumiditySamples' = p.count
                /\ obs' = [obs EXCEPT !.published = TRUE, !.freshH = FALSE,
                                      !.prevH = <<p.value>>,
                                      !.discH = note.disc, !.winH = note.win]
                /\ UNCHANGED <<_temperatureSamples, _temperatureSampleIndex,
                               _numTemperatureSamples>>
    /\ UNCHANGED <<_lastMeasurementTimestamp, _maxReadRetries, _numReadRetries,
                   _numSamples, _statusLastMeasurement, _data,
                   now, sensor, hw, attempts, elapsed, mcu>>

-----------------------------------------------------------------------------
(* Specifications *)

MaxCalls == 5
MaxAttempts == 3

\* Payloads: 55.0 % at 25.1 C, 56.0 % at -0.1 C, 56.0 % at 25.3 C,
\* 100.0 % at 80.0 C
PayloadA == Reading(550, 251)
PayloadB == Reading(560, -1)
PayloadC == Reading(560, 253)
PayloadD == Reading(1000, 800)

AnySensor ==
    {Good(PayloadA), Good(PayloadB), Good(Corrupt(PayloadA)),
     BitTimeout(PayloadA, 41), NoAck, NoRelease}

\* The answers the attached sensor can give to a start condition
Answers(s) ==
    CASE s = "any" -> AnySensor
      [] s = "dead" -> {NoAck}
      [] s = "jammed" -> {BitTimeout(PayloadA, 41)}
      [] s = "flaky" -> {NoAck, Good(PayloadA)}
      [] s = "steady" -> {Good(PayloadD)}
      [] s = "varying" -> {Good(PayloadA), Good(PayloadC)}

\* Clock values at construction: after reset, and 2030 ms before the wrap
StartTimes == {U32(HALF - 1, HALF - 2030)}

Delays == {1969, 1970}

Init ==
    \E o \in {StaticObject} \cup AutomaticObjects, t \in StartTimes :
        Constructed(o, t, "any", MaxCalls)

Next ==
    \/ \E m \in {0, 1}, n \in {0, 2} : Begin(m, n)
    \/ \E d \in Delays : Tick(d)
    \/ Available
    \/ \E r \in Answers(sensor) : Attempt(r, MaxAttempts)
    \/ ReadTemperature
    \/ ReadHumidity

Spec == Init /\ [][Next]_vars


\* The retry loop: one acquisition from a sensor that never answers, or
\* answers now and then, under the smallest and the largest retry counts
\* begin() accepts, and the reads that follow it.
MaxLoop == 260
RetryCalls == 3

RetryInit ==
    \E s \in {"dead", "jammed", "flaky"}, t \in StartTimes :
        Constructed(StaticObject, t, s, RetryCalls)

RetryNext ==
    \/ \E m \in {0, 2, 255} : Begin(m, 0)
    \/ ~obs.acquired /\ Available
    \/ \E r \in Answers(sensor) : Attempt(r, MaxLoop)
    \/ ReadTemperature
    \/ ReadHumidity

SpecRetry == RetryInit /\ [][RetryNext]_vars

\* Averaging: every 2000 ms one successful acquisition, read once by
\* readHumidity() and then once by readTemperature().
MaxReads == 258
Period == 2000

AvgInit ==
    \E s \in {"steady", "varying"}, t \in StartTimes :
        Constructed(StaticObject, t, s, 4 * MaxReads)

AvgCounts(s) == IF s = "steady" THEN {1, 3, 33} ELSE {2, 3}

AvgNext ==
    \/ \E n \in AvgCounts(sensor) : Begin(2, n)
    \/ lastOp = "readTemperature" /\ Tick(Period)
    \/ lastOp \in {"begin", "tick"} /\ Available
    \/ \E r \in Answers(sensor) : Attempt(r, MaxAttempts)
    \/ obs.freshH /\ ReadHumidity
    \/ obs.freshT /\ ~obs.freshH /\ ReadTemperature

SpecAvg == AvgInit /\ [][AvgNext]_vars

\* One acquisition taken statement by statement, on payloads of every bit
\* pattern (the fifth byte a checksum or not) sent with two sets of pulse
\* widths, one of them with the high phase of a 0 as long as the low phase.
StepCalls == 2

ProbePayloads ==
    {Bytes(165, 1, 128, 255, 0), Bytes(255, 255, 255, 255, 255),
     Bytes(0, 0, 0, 0, 0), PayloadA}

ProbeWidths == {[low |-> 50, one |-> 70, zero |-> 26], [low |-> 1, one |-> 2, zero |-> 1]}

StepAnswers ==
    {GoodW(p, w) : p \in ProbePayloads, w \in ProbeWidths}
        \cup {BitTimeout(PayloadA, j) : j \in {0, 41, 79}}
        \cup {NoAck, NoRelease}

StepInit == \E t \in StartTimes : Constructed(StaticObject, t, "probe", StepCalls)

StepNext ==
    \/ \E m \in {0, 1} : Begin(m, 0)
    \/ ~obs.acquired /\ Available
    \/ \E r \in StepAnswers : StartCondition(r, MaxAttempts)
    \/ EnterReadBytes
    \/ SkipReadBytes
    \/ Measure
    \/ LeaveCapture
    \/ Convert
    \/ Parity(MaxAttempts)
    \/ ReadTemperature
    \/ ReadHumidity

SpecStep == StepInit /\ [][StepNext]_vars

\* One acquisition of a payload with any pair of temperature bytes out of
\* ProbeBytes, averaging off, then reads.
DecodeCalls == 3

ProbeBytes == {0, 1, 25, 64, 127, 128, 129, 192, 255}

Checked(b0, b1, b2, b3) == Bytes(b0, b1, b2, b3, (b0 + b1 + b2 + b3) % 256)

DecodeInit == \E t \in StartTimes : Constructed(StaticObject, t, "probe", DecodeCalls)

DecodeNext ==
    \/ Begin(0, 0)
    \/ ~obs.acquired /\ Available
    \/ \E b2 \in ProbeBytes, b3 \in ProbeBytes :
          Attempt(Good(Checked(2, 38, b2, b3)), MaxAttempts)
    \/ ReadTemperature
    \/ ReadHumidity

SpecDecode == DecodeInit /\ [][DecodeNext]_vars

\* Single calls of measurePulseWidth() with a threshold of 1..ProbeMaxCycles
\* reads, on every line of ProbeMaxCycles + 1 successive pin levels (the
\* threshold of the code, the clock cycles of 1000 us, scaled down).
ProbeMaxCycles == 4

Levels == {0, 1}

PulseInit == \E t \in StartTimes : Constructed(StaticObject, t, "probe", 0)

PulseNext ==
    \/ \E levels \in [1..(ProbeMaxCycles + 1) -> Levels], m \in 1..ProbeMaxCycles :
          Line(levels, m)
    \/ \E level \in Levels : MeasureCall(level)

SpecPulse == PulseInit /\ [][PulseNext]_vars

\* An object of static storage configured with or without averaging, then
\* possibly configured again without it, with acquisitions and reads.
ConfigCalls == 5

ConfigInit == \E t \in StartTimes : Constructed(StaticObject, t, "flaky", ConfigCalls)

ConfigNext ==
    \/ \E n \in {0, 2} : Begin(0, n)
    \/ BeginAgain(0, 0)
    \/ Tick(Period)
    \/ Available
    \/ \E r \in Answers(sensor) : Attempt(r, MaxAttempts)
    \/ ReadTemperature
    \/ ReadHumidity

SpecConfig == ConfigInit /\ [][ConfigNext]_vars


-----------------------------------------------------------------------------
(* Properties *)

Reads == {"readTemperature", "readHumidity"}

\* A step that is a call of available() made less than 2000 ms after the
\* last acquisition started
TooSoonCall ==
    /\ pc = "idle"
    /\ obs.acquired
    /\ elapsed < 2000
    /\ lastOp' \in {"available", "acquire"}

\* The additive checksum, as the data sheet states it
SumMatches(d) == d[4] = (d[0] + d[1] + d[2] + d[3]) % 256

\* C1: an available() call made less than 2000 ms after the last
\* acquisition started returns at once: it makes no pin write, no pin-mode
\* change and no pulse measurement, and leaves the timestamp, the status
\* flag, the retry count and the 5-byte payload as they were.
C1_TooSoonCallTouchesNothing ==
    [][TooSoonCall =>
          /\ pc' = "idle"
          /\ hw' = NoAccess
          /\ attempts' = 0
          /\ UNCHANGED readState]_vars

\* C1 witness: a call rejected 1999 ms after a successful acquisition.
C1_Witness ==
    /\ lastOp = "available"
    /\ attempts = 0
    /\ obs.lastAcq = "ok"
    /\ elapsed = 1999

\* C2: one available() call that passes the interval check runs at most
\* maxReadRetries + 1 attempts and has returned once that many have run.
C2_AttemptsBounded ==
    /\ attempts <= _maxReadRetries + 1
    /\ (pc = "acquiring" => attempts <= _maxReadRetries)

\* C3: a decoded payload whose checksum does not match leaves the status
\* flag false; available() returns false when its last attempt failed; and
\* no read call publishes a decoded payload whose checksum does not match.
C3_BadChecksumNeverPublished ==
    /\ (obs.dataFrom = "decoded" /\ ~SumMatches(_data)
            => _statusLastMeasurement = FALSE)
    /\ (lastOp = "available" /\ attempts > 0 /\ ~SumMatches(_data)
            /\ obs.dataFrom = "decoded" => ret = FALSE)
    /\ (lastOp \in Reads /\ obs.dataFrom = "decoded" /\ ~SumMatches(_data)
            => ~obs.published /\ ret = INVALID)

\* C3 witness: a read call after an acquisition whose last attempt decoded
\* a payload with a wrong checksum.
C3_Witness ==
    /\ lastOp \in Reads
    /\ obs.lastAcq = "failed"
    /\ obs.dataFrom = "decoded"
    /\ ~SumMatches(_data)

\* C4: after an acquisition that ended in failure, every call of
\* readTemperature() and readHumidity() returns the invalid sentinel and
\* leaves both average buffers, their counts and their cursors unchanged.
C4_FailedReadReturnsSentinel ==
    [][(pc = "idle" /\ obs.lastAcq = "failed" /\ lastOp' \in Reads) =>
          /\ ret' = INVALID
          /\ UNCHANGED averager]_vars

\* C4 witness: a read of a failed acquisition with a sample already in the
\* temperature buffer.
C4_Witness ==
    /\ lastOp = "readTemperature"
    /\ obs.lastAcq = "failed"
    /\ _numTemperatureSamples > 0

\* C5: once maxRetries + 1 attempts of a call have all failed the start
\* condition, available() has returned false with the retry count equal to
\* maxRetries, and the read calls return the invalid sentinel.
C5_RetryExhaustion ==
    /\ (lastOp \in {"attempt", "available"} /\ obs.startFails
            /\ attempts = _maxReadRetries + 1
          => /\ lastOp = "available"
             /\ pc = "idle"
             /\ ret = FALSE
             /\ _numReadRetries = _maxReadRetries)
    /\ (lastOp \in Reads /\ obs.startFails /\ attempts = _maxReadRetries + 1
          => ret = INVALID)

RECURSIVE SeqSum(_)
SeqSum(w) == IF w = <<>> THEN 0 ELSE Head(w) + SeqSum(Tail(w))

\* The truncating integer mean of the raw values w
TruncMean(w) == TruncDiv(SeqSum(w), Len(w))

FitsInt16(x) == -32768 <= x /\ x <= 32767

\* C6: with averaging on, when every successful acquisition is read exactly
\* once, the value a read returns is the truncating mean of the most recent
\* min(k, N) raw values (window sums within int16).
C6_MovingAverage ==
    /\ (lastOp = "readHumidity" /\ obs.discH /\ obs.winH # <<>>
            /\ FitsInt16(SeqSum(obs.winH))
          => ret = TruncMean(obs.winH))
    /\ (lastOp = "readTemperature" /\ obs.discT /\ obs.winT # <<>>
            /\ FitsInt16(SeqSum(obs.winT))
          => ret = TruncMean(obs.winT))

\* C7: a read call repeated after a successful acquisition, with no other
\* successful acquisition in between, returns what the previous one returned and leaves the buffers, counts
\* and cursors unchanged.
C7_RepeatedReadIsIdempotent ==
    [][/\ (pc = "idle" /\ lastOp' = "readTemperature"
              /\ obs.lastAcq = "ok" /\ ~obs.freshT /\ obs.prevT # <<>>
            => ret' = obs.prevT[1] /\ UNCHANGED averager)
       /\ (pc = "idle" /\ lastOp' = "readHumidity"
              /\ obs.lastAcq = "ok" /\ ~obs.freshH /\ obs.prevH # <<>>
            => ret' = obs.prevH[1] /\ UNCHANGED averager)]_vars

\* All entries of w equal its first
Constant(w) == \A i \in 1..Len(w) : w[i] = w[1]

\* C8: after N successive successful reads of one raw value v, each folded
\* once, the averaged value is v.
C8_IdenticalSamplesAverageExactly ==
    /\ (lastOp = "readHumidity" /\ obs.discH /\ Len(obs.winH) = _numSamples
            /\ _numSamples > 0 /\ Constant(obs.winH)
          => ret = obs.winH[1])
    /\ (lastOp = "readTemperature" /\ obs.discT /\ Len(obs.winT) = _numSamples
            /\ _numSamples > 0 /\ Constant(obs.winT)
          => ret = obs.winT[1])

\* C9 as claimed: an available() call made less than 2000 ms after the
\* previous acquisition returns that acquisition's outcome.
C9_ReturnsPriorOutcome ==
    [][TooSoonCall => ret' = _statusLastMeasurement]_vars

\* C9 as amended: such a call returns false whatever the outcome of the
\* previous acquisition was; the recorded outcome stays as it was.
C9_ReturnsFalse ==
    [][TooSoonCall =>
          /\ ret' = FALSE
          /\ _statusLastMeasurement' = _statusLastMeasurement]_vars

\* C9 witness: a call rejected after a successful acquisition has returned
\* false while the recorded outcome is still success.
C9_Witness ==
    /\ lastOp = "available"
    /\ attempts = 0
    /\ obs.lastAcq = "ok"
    /\ elapsed < 2000
    /\ ret = FALSE
    /\ _statusLastMeasurement = TRUE

\* C10: after a successful acquisition neither read call returns ~0 (-1).
C10_SentinelMeansFailure ==
    lastOp \in Reads /\ obs.lastAcq = "ok" => ret # INVALID

\* C11: for every 5-byte payload sent as 80 non-zero pulse widths whose
\* high phase exceeds the low phase exactly for the 1 bits, readBytes()
\* returns true and leaves _data equal to the five bytes sent, bit i in
\* byte i div 8, most significant bit first.
Clean(cycles) == \A j \in 0..79 : cycles[j] # 0

Encodes(cycles, p) ==
    \A i \in 0..39 : (cycles[(2 * i) + 1] > cycles[2 * i]) <=> (Bit(p, i) = 1)

ReadBytesReturned == (mcu.phase = "read") /\ (lastOp = "readBytes")

C11_ReadBytesRoundTrip ==
    (ReadBytesReturned /\ Clean(mcu.src.cycles))
        => /\ _statusLastMeasurement
           /\ \A p \in ProbePayloads : Encodes(mcu.src.cycles, p) => (_data = p)
           /\ \E p \in ProbePayloads : Encodes(mcu.src.cycles, p)

C11_Witness ==
    /\ ReadBytesReturned
    /\ mcu.src = GoodW(Bytes(165, 1, 128, 255, 0), [low |-> 1, one |-> 2, zero |-> 1])
    /\ _data = Bytes(165, 1, 128, 255, 0)

\* C12: with averaging off, readTemperature() after a successful
\* acquisition returns the sign-and-magnitude value of the two temperature
\* bytes: (high & 0x7F) * 256 + low, negated when bit 7 of the high byte is
\* set (0x80 0x19 gives -25).
SignMagnitude(high, low) ==
    LET magnitude == ((high % 128) * 256) + low
    IN  IF high >= 128 THEN 0 - magnitude ELSE magnitude

AveragingOff == (_numSamples = 0) /\ (_temperatureSamples.ptr = "null")

C12_SignMagnitudeDecode ==
    ((lastOp = "readTemperature") /\ (obs.lastAcq = "ok") /\ AveragingOff)
        => (ret = SignMagnitude(_data[2], _data[3]))

C12_Witness ==
    /\ lastOp = "readTemperature"
    /\ obs.lastAcq = "ok"
    /\ AveragingOff
    /\ _data[2] = 128
    /\ _data[3] = 25
    /\ ret = -25

\* C13: with sampleCount = 0, whatever calls were made before, a read call
\* never indexes, reads or writes an average buffer (no division by the
\* sample count), and after a successful acquisition it returns the
\* decoded value unchanged.
RawValue(op, d) ==
    IF op = "readTemperature" THEN SignMagnitude(d[2], d[3])
    ELSE I16((d[0] * 256) + d[1])

C13_NoAveragingWhenOff ==
    (_numSamples = 0)
        => /\ pc # "ub"
           /\ ((lastOp \in Reads) /\ (obs.lastAcq = "ok")) => (ret = RawValue(lastOp, _data))

\* C14: when a pulse measurement of attempt k (0-based) returns 0, in the
\* start condition or in the capture, attempt k is marked failed; for
\* k < maxRetries the call goes on to attempt k + 1, for k = maxRetries the
\* call ends and available() returns false.
AttemptEnded == (lastOp \in {"attempt", "available"}) /\ (attempts > 0)

C14_TimeoutFailsAttempt ==
    (AttemptEnded /\ obs.timedOut)
        => /\ ~_statusLastMeasurement
           /\ (attempts - 1 < _maxReadRetries) => (pc = "acquiring")
           /\ (attempts - 1 = _maxReadRetries)
                 => (pc = "idle") /\ (lastOp = "available") /\ (ret = FALSE)

\* C15: when attempt k (0-based) is the first of a call to pass start
\* condition, capture and checksum, the call ends there, available()
\* returns true and the retry count is k; after any return of available()
\* the retry count is at most maxRetries.
C15_FirstSuccessEndsCall ==
    /\ (AttemptEnded /\ _statusLastMeasurement)
          => /\ pc = "idle"
             /\ lastOp = "available"
             /\ ret = TRUE
             /\ _numReadRetries = attempts - 1
    /\ ((lastOp = "available") /\ obs.acquired) => (_numReadRetries <= _maxReadRetries)

\* C16: within one attempt the order is start condition, capture,
\* checksum; when generateStart() returns false neither readBytes() is
\* called nor the checksum compared in that attempt, and when readBytes()
\* returns false the checksum is not compared.
PassOrder == <<"generateStart", "readBytes", "parity">>

IsPrefix(a, b) == (Len(a) <= Len(b)) /\ (\A k \in 1..Len(a) : a[k] = b[k])

Called(f) == \E k \in 1..Len(mcu.calls) : mcu.calls[k] = f

StartFailed(r) == (r.startLow = 0) \/ (r.startHigh = 0)

PassEnded == (mcu.phase = "none") /\ (attempts > 0)

C16_PassOrder ==
    /\ IsPrefix(mcu.calls, PassOrder)
    /\ (mcu.calls # <<>>)
          => /\ StartFailed(mcu.src) => (~Called("readBytes") /\ ~Called("parity"))
             /\ ~Clean(mcu.src.cycles) => ~Called("parity")
    /\ (PassEnded /\ ~StartFailed(mcu.src)) => Called("readBytes")
    /\ (PassEnded /\ ~StartFailed(mcu.src) /\ Clean(mcu.src.cycles)) => Called("parity")

C16_Witness ==
    /\ PassEnded
    /\ mcu.src = NoRelease
    /\ mcu.calls = <<"generateStart">>

\* C17 as stated: in readBytes() the first measurement that returns 0 is
\* the last one made in that attempt, and readBytes() returns false.
InCapture == mcu.phase \in {"capture", "captured"}

C17_StopsAtFirstTimeout ==
    /\ InCapture => (\A j \in 1..(Len(mcu.cycles) - 1) : mcu.cycles[j] # 0)
    /\ (ReadBytesReturned /\ ~Clean(mcu.src.cycles)) => ~_statusLastMeasurement

\* C17, amended: readBytes() makes all 80 measurements whatever they
\* return and stores each; when one of them returned 0 it returns false,
\* and the attempt ends failed with no checksum comparison.
C17_TimeoutFailsAfterCapture ==
    /\ (mcu.phase = "captured")
          => /\ Len(mcu.cycles) = 2 * DHT22_NUM_DATA_BITS
             /\ Stored(mcu.cycles) = mcu.src.cycles
    /\ ReadBytesReturned => (_statusLastMeasurement <=> Clean(mcu.src.cycles))
    /\ (PassEnded /\ Called("readBytes") /\ ~Clean(mcu.src.cycles))
          => (~_statusLastMeasurement /\ ~Called("parity"))

C17_Witness ==
    /\ ReadBytesReturned
    /\ Len(mcu.cycles) = 80
    /\ mcu.cycles[42] = 0
    /\ mcu.cycles[80] # 0
    /\ ~_statusLastMeasurement

\* C18: interrupts are disabled by readBytes() before its first
\* measurement, stay disabled through the last and are enabled when the
\* capture loop is left; the start condition, the conversion, the parity
\* test and every other step run with interrupts enabled and leave them
\* enabled, so they are enabled whenever available() returns.
C18_InterruptsOffOnlyInCapture ==
    [][ CASE lastOp' = "noInterrupts" -> mcu.ints /\ ~mcu'.ints /\ (Len(mcu'.cycles) = 0)
          [] lastOp' = "measurePulseWidth" -> ~mcu.ints /\ ~mcu'.ints
          [] lastOp' = "interrupts" ->
                ~mcu.ints /\ mcu'.ints /\ (Len(mcu.cycles) = 2 * DHT22_NUM_DATA_BITS)
          [] OTHER -> mcu.ints /\ mcu'.ints ]_vars

C18_Witness ==
    /\ pc = "idle"
    /\ lastOp = "available"
    /\ ret = FALSE
    /\ Len(mcu.cycles) = 80
    /\ mcu.cycles[1] = 0
    /\ mcu.ints

\* C19: measurePulseWidth(level) returns 0 exactly when the line stayed at
\* level until the counter reached the threshold; when the level changed,
\* or already differed, before the threshold, the count returned is not 0.
StayedAtLevel(levels, level, maxCycles) == \A k \in 1..(maxCycles + 1) : levels[k] = level

C19_ZeroOnlyOnTimeout ==
    (mcu.width # -1)
        => ((mcu.width = 0) <=> StayedAtLevel(mcu.probe[1], mcu.probe[3], mcu.probe[2]))

\* C20: the first available() call after begin() passes the interval test
\* and performs an acquisition, whatever the value of the wrapping 32-bit
\* clock at that call: no available() call has returned while no
\* acquisition was ever started.
C20_FirstCallAcquires == (lastOp = "available") => obs.acquired

\* The pass taken statement by statement ends as the pass taken as one step
\* (AttemptBody) on the same response: same flag, and the same buffer once
\* readBytes() was called.
StepsAgree ==
    (PassEnded /\ (mcu.calls # <<>>))
        => /\ (pc = "idle") => (_statusLastMeasurement = AttemptBody(mcu.src, _data).status)
           /\ Called("readBytes") => (_data = ReadBytes(mcu.src.cycles).data)
           /\ Called("readBytes") <=> GenerateStart(mcu.src)

=============================================================================
